---- MODULE Spec2Model ----
(***************************************************************************)
(* A model of RustyWgpu: the fluent PipelineBuilder of                     *)
(* wgpu-framework/src/pipeline.rs and the render state (State) with its    *)
(* frame driver (run) of src/lib.rs.                                       *)
(*                                                                         *)
(* Rust's Option<T> is a set with at most one element: None is {} and      *)
(* Some(x) is {x}.  A Vec is a sequence.  A u64 bit mask is the set of the *)
(* positions of its set bits.                                              *)
(***************************************************************************)
EXTENDS Integers, Sequences, FiniteSets, TLC

VARIABLES
    \* ---- PipelineBuilder (pipeline.rs) ----
    builder,        \* the PipelineBuilder's fields
    last,           \* the most recent call on the builder: op, arg and what it returned
    ncalls,         \* number of calls made on the builder so far
    hist,           \* history, per field: the last setter argument, what was pushed since
    consumed,       \* history: shaders taken by a successful build and not set again since
    \* ---- State and run (lib.rs) ----
    phase,          \* "Uninitialized" | "Ready" | "InitFailed"
    window_size,    \* window.inner_size() at start-up
    state,          \* the State (with the surface and the uniform buffer it owns)
    control_flow,   \* *control_flow of the event loop closure
    redraw_requested, \* window.request_redraw() called and not yet served
    frame,          \* the most recent event the closure handled and the calls it made
    applied         \* history: size of the most recent resize that took effect

bvars == <<builder, last, ncalls, hist, consumed>>
svars == <<phase, window_size, state, control_flow, redraw_requested, frame, applied>>
vars == <<builder, last, ncalls, hist, consumed,
          phase, window_size, state, control_flow, redraw_requested, frame, applied>>

None == {}
Some(x) == {x}

(***************************************************************************)
(* Bounds of the model.                                                    *)
(***************************************************************************)
\* calls made on one builder
MaxCalls == 5
\* longest Vec handed to, or grown by, a list setter
MaxList == 2
\* largest window width / height
MaxDim == 2
\* farthest the camera eye moves from the target
MaxEye == 2

(***************************************************************************)
(* PipelineBuilder                                                         *)
(***************************************************************************)
\* u64: sample_mask has this many bits
MaskBits == 64
\* !0 as a u64
AllBits == 0 .. (MaskBits - 1)

Layouts == {"layoutA"}
VertexBufferLayouts == {"vbl1", "vbl2"}
ColorTargetStates == {"cts1"}

\* the fields declared Option<...>: the build_field! setter's .into() wraps
\* its argument in Some
OptionFields == {"layout", "vertex_shader", "fragment_shader", "cull_mode",
                 "depth_stencil", "multiview"}

ListFields == {"vertex_buffers", "color_states"}

ScalarFields == {"primitive_topology", "front_face", "cull_mode", "polygon_mode",
                 "depth_stencil", "sample_count", "sample_mask",
                 "alpha_to_coverage_enabled", "multiview"}

\* the arguments the model hands to each build_field! setter
SetterArgs(f) ==
    CASE f = "layout" -> Layouts
      [] f = "vertex_shader" -> {"shaderA"}
      [] f = "fragment_shader" -> {"shaderB"}
      [] f = "vertex_buffers" -> {<<>>, <<"vbl2">>, <<"vbl2", "vbl1">>}
      [] f = "color_states" -> {<<>>, <<Some("cts1"), None>>}
      [] f = "primitive_topology" -> {"LineList"}
      [] f = "front_face" -> {"Cw"}
      [] f = "cull_mode" -> {"Front", "Back"}
      [] f = "polygon_mode" -> {"Line"}
      [] f = "depth_stencil" -> {"depthA"}
      [] f = "sample_count" -> {4}
      [] f = "sample_mask" -> {{0}}
      [] f = "alpha_to_coverage_enabled" -> {TRUE}
      [] f = "multiview" -> {2}

SetterFields == {"layout", "vertex_shader", "fragment_shader"} \cup ListFields \cup ScalarFields

\* new() with the cull mode of lib.rs's own pipeline, Some(Back)
PipelineBuilder_new_culling ==
    [ layout |-> None, vertex_shader |-> None, vertex_buffers |-> <<>>,
      fragment_shader |-> None, color_states |-> <<>>,
      primitive_topology |-> "TriangleList", front_face |-> "Ccw",
      cull_mode |-> Some("Back"), polygon_mode |-> "Fill",
      depth_stencil |-> None, sample_count |-> 1, sample_mask |-> AllBits,
      alpha_to_coverage_enabled |-> FALSE, multiview |-> None ]

PipelineBuilder_new ==
    [ layout |-> None,
      vertex_shader |-> None,
      vertex_buffers |-> <<>>,
      fragment_shader |-> None,
      color_states |-> <<>>,
      primitive_topology |-> "TriangleList",
      front_face |-> "Ccw",
      cull_mode |-> None,
      polygon_mode |-> "Fill",
      depth_stencil |-> None,
      sample_count |-> 1,
      sample_mask |-> AllBits,
      alpha_to_coverage_enabled |-> FALSE,
      multiview |-> None ]

\* $field.into(): T -> Option<T> for the Option fields, T -> T for the others
into(f, v) == IF f \in OptionFields THEN Some(v) ELSE v

\* build_field! keeping a value that was set before
build_field_first_wins(b, f, v) ==
    [b EXCEPT ![f] = IF @ = PipelineBuilder_new[f] THEN into(f, v) ELSE @]

\* build_field!(f: T): self.f = f.into(); self
build_field(b, f, v) == [b EXCEPT ![f] = into(f, v)]

\* vertex_buffer with insert(0, ..) for push
vertex_buffer_front(b, v) == [b EXCEPT !.vertex_buffers = <<v>> \o @]

\* self.vertex_buffers.push(vertex_buffer); self
vertex_buffer(b, v) == [b EXCEPT !.vertex_buffers = Append(@, v)]

\* self.color_states.push(Some(color_state)); self
color_state(b, v) == [b EXCEPT !.color_states = Append(@, Some(v))]

\* device.create_shader_module(desc): the module compiled from desc
create_shader_module(desc) == <<"ShaderModule", desc>>

\* the RenderPipelineDescriptor build hands to device.create_render_pipeline
RenderPipelineDescriptor(b, layout, vs, fs) ==
    [ label |-> Some("Render Pipeline"),
      layout |-> Some(layout),
      vertex |-> [ module |-> vs, entry_point |-> "main", buffers |-> b.vertex_buffers ],
      fragment |-> Some([ module |-> fs, entry_point |-> "main", targets |-> b.color_states ]),
      primitive |-> [ topology |-> b.primitive_topology,
                      strip_index_format |-> None,
                      front_face |-> b.front_face,
                      cull_mode |-> b.cull_mode,
                      polygon_mode |-> b.polygon_mode,
                      unclipped_depth |-> FALSE,
                      conservative |-> FALSE ],
      depth_stencil |-> b.depth_stencil,
      multisample |-> [ count |-> b.sample_count,
                        mask |-> b.sample_mask,
                        alpha_to_coverage_enabled |-> b.alpha_to_coverage_enabled ],
      multiview |-> b.multiview ]

\* device.create_render_pipeline(desc): the pipeline object made from desc
create_render_pipeline(desc) == [ kind |-> "RenderPipeline", desc |-> desc ]

\* what build answers when it panics with msg, leaving the builder as b
Panicked(b, msg) == [ builder |-> b, ret |-> None, panic |-> msg ]

\* what build answers when it returns Some(pipeline), leaving the builder as b
Built(b, layout, vs, fs) ==
    [ builder |-> b,
      ret |-> Some(create_render_pipeline(RenderPipelineDescriptor(b, layout, vs, fs))),
      panic |-> "" ]

\* the descriptor an Option holds
Unwrap(opt) == CHOOSE d \in opt : TRUE

\* build falling back on the vertex module when no fragment shader is set
build_fragment_optional(b) ==
    IF b.layout = None THEN Panicked(b, "called Option::unwrap() on a None value")
    ELSE IF b.vertex_shader = None THEN Panicked(b, "No vertex shader supplied")
    ELSE LET b2 == [b EXCEPT !.vertex_shader = None, !.fragment_shader = None]
             vs == create_shader_module(Unwrap(b.vertex_shader))
         IN Built(b2, Unwrap(b.layout), vs,
                  IF b.fragment_shader = None THEN vs
                  ELSE create_shader_module(Unwrap(b.fragment_shader)))

\* build with clone() for take(): the shaders stay in the builder
build_clone(b) ==
    IF b.layout = None THEN Panicked(b, "called Option::unwrap() on a None value")
    ELSE IF b.vertex_shader = None THEN Panicked(b, "No vertex shader supplied")
    ELSE IF b.fragment_shader = None THEN Panicked(b, "No fragment shader supplied")
    ELSE Built(b, Unwrap(b.layout), create_shader_module(Unwrap(b.vertex_shader)),
               create_shader_module(Unwrap(b.fragment_shader)))

\* build returning None when no vertex buffer layout has been given
build_needs_buffers(b) ==
    IF b.layout = None THEN Panicked(b, "called Option::unwrap() on a None value")
    ELSE IF b.vertex_shader = None THEN Panicked(b, "No vertex shader supplied")
    ELSE IF b.fragment_shader = None
    THEN Panicked([b EXCEPT !.vertex_shader = None], "No fragment shader supplied")
    ELSE LET b2 == [b EXCEPT !.vertex_shader = None, !.fragment_shader = None]
         IN IF b.vertex_buffers = <<>>
            THEN [ builder |-> b2, ret |-> None, panic |-> "" ]
            ELSE Built(b2, Unwrap(b.layout),
                       create_shader_module(Unwrap(b.vertex_shader)),
                       create_shader_module(Unwrap(b.fragment_shader)))

\* build(&mut self, device): the builder afterwards, the Option returned
\* (ret), and the panic message when unwrap()/expect() panicked ("" if not).
\* Option::take() leaves None behind, also when a later expect() panics.
build(b) ==
    IF b.layout = None
    THEN Panicked(b, "called Option::unwrap() on a None value")
    ELSE IF b.vertex_shader = None
    THEN Panicked(b, "No vertex shader supplied")
    ELSE LET b1 == [b EXCEPT !.vertex_shader = None]
             vs == create_shader_module(Unwrap(b.vertex_shader))
         IN IF b1.fragment_shader = None
            THEN Panicked(b1, "No fragment shader supplied")
            ELSE LET b2 == [b1 EXCEPT !.fragment_shader = None]
                     fs == create_shader_module(Unwrap(b1.fragment_shader))
                 IN Built(b2, Unwrap(b.layout), vs, fs)

\* history of one field: set is Some(the argument of the last build_field!
\* setter call), pushed the arguments of the push calls since then, dropped
\* what that setter call discarded: the list of a list field, the one value
\* of any other field
NoHistory == [ set |-> None, pushed |-> <<>>, dropped |-> <<>> ]

BInit ==
    /\ builder = PipelineBuilder_new
    /\ last = [ op |-> "new", field |-> "", arg |-> <<>>, ret |-> None, panic |-> "" ]
    /\ ncalls = 0
    /\ hist = [ f \in SetterFields |-> NoHistory ]
    /\ consumed = {}

\* a build_field! setter: builder.f(v)
SetField(f, v) ==
    /\ UNCHANGED svars
    /\ ncalls < MaxCalls
    /\ builder' = build_field(builder, f, v)
    /\ last' = [ op |-> "set", field |-> f, arg |-> v, ret |-> None, panic |-> "" ]
    /\ ncalls' = ncalls + 1
    /\ hist' = [hist EXCEPT ![f] = [ set |-> Some(v), pushed |-> <<>>,
                                      dropped |-> IF f \in ListFields
                                                  THEN builder[f]
                                                  ELSE << builder[f] >> ]]
    /\ consumed' = consumed \ {f}

\* builder.vertex_buffer(v)
PushVertexBuffer(v) ==
    /\ UNCHANGED svars
    /\ ncalls < MaxCalls
    /\ Len(builder.vertex_buffers) < MaxList
    /\ builder' = vertex_buffer(builder, v)
    /\ last' = [ op |-> "push", field |-> "vertex_buffers", arg |-> v,
                 ret |-> None, panic |-> "" ]
    /\ ncalls' = ncalls + 1
    /\ hist' = [hist EXCEPT !["vertex_buffers"].pushed = Append(@, v)]
    /\ consumed' = consumed

\* builder.color_state(v)
PushColorState(v) ==
    /\ UNCHANGED svars
    /\ ncalls < MaxCalls
    /\ Len(builder.color_states) < MaxList
    /\ builder' = color_state(builder, v)
    /\ last' = [ op |-> "push", field |-> "color_states", arg |-> v,
                 ret |-> None, panic |-> "" ]
    /\ ncalls' = ncalls + 1
    /\ hist' = [hist EXCEPT !["color_states"].pushed = Append(@, v)]
    /\ consumed' = consumed

\* builder.build(device); a caller that catches the unwind of a panicking
\* build keeps the builder as the panic left it
Build ==
    /\ UNCHANGED svars
    /\ ncalls < MaxCalls
    /\ LET r == build(builder)
       IN /\ builder' = r.builder
          /\ last' = [ op |-> "build", field |-> "", arg |-> <<>>,
                       ret |-> r.ret, panic |-> r.panic ]
          /\ consumed' = IF r.panic = "" THEN {"vertex_shader", "fragment_shader"}
                         ELSE consumed
    /\ ncalls' = ncalls + 1
    /\ hist' = hist

(***************************************************************************)
(* The camera collaborator (mod camera; its source file is not part of     *)
(* this repository's src/).  Modelled from the specification: the          *)
(* controller consumes the key events that move the camera, update_camera  *)
(* moves the eye by the accumulated input, and the uniform holds the       *)
(* camera's view-projection matrix.  The eye is its distance from the      *)
(* target in steps of the controller's speed; a matrix is the sequence of  *)
(* its cells.  Whether the controller also consumes an event that moves    *)
(* nothing is its own decision: the answer it gives for such an event is   *)
(* an input (taken).                                                       *)
(***************************************************************************)
MoveKeys == {"W", "S"}

\* CameraController::new(speed)
CameraController_new == [ is_forward_pressed |-> FALSE, is_backward_pressed |-> FALSE ]

\* CameraController::process_events(&mut self, event) -> bool
process_events(c, event, taken) ==
    IF event.kind = "KeyboardInput" /\ event.key \in MoveKeys
    THEN [ controller |->
               IF event.key = "W"
               THEN [c EXCEPT !.is_forward_pressed = (event.state = "Pressed")]
               ELSE [c EXCEPT !.is_backward_pressed = (event.state = "Pressed")],
           ret |-> TRUE ]
    ELSE [ controller |-> c, ret |-> taken ]

\* CameraController::update_camera(&self, camera)
update_camera(c, cam) ==
    LET fwd == IF c.is_forward_pressed /\ cam.eye > 1
               THEN [cam EXCEPT !.eye = @ - 1] ELSE cam
    IN IF c.is_backward_pressed /\ fwd.eye < MaxEye
       THEN [fwd EXCEPT !.eye = @ + 1] ELSE fwd

\* Camera::build_view_projection_matrix(&self)
build_view_projection_matrix(cam) ==
    << <<"view", cam.eye>>, <<"proj", cam.aspect.width, cam.aspect.height>> >>

\* CameraUniform::new(): the identity matrix
CameraUniform_new == [ view_proj |-> << <<"identity">>, <<"identity">> >> ]

\* CameraUniform::update_view_proj(&mut self, camera)
update_view_proj(u, cam) == [u EXCEPT !.view_proj = build_view_projection_matrix(cam)]

(***************************************************************************)
(* State (lib.rs)                                                          *)
(***************************************************************************)
\* VERTICES: the five vertices A to E
VERTICES == <<"A", "B", "C", "D", "E">>

\* INDICES
INDICES == <<0, 1, 4, 1, 2, 4, 2, 3, 4>>

SurfaceErrors == {"Timeout", "Outdated", "Lost", "OutOfMemory"}
\* what surface.get_current_texture() can answer
Acquisitions == {"Ok"} \cup SurfaceErrors

\* surface.get_supported_formats(&adapter)[0]
Formats == {"Bgra8UnormSrgb", "Rgba8UnormSrgb"}

Dims == 0 .. MaxDim
PhysicalSize(w, h) == [ width |-> w, height |-> h ]
Sizes == { PhysicalSize(w, h) : w \in Dims, h \in Dims }
\* window.inner_size() when State::new is called: no area, or the smallest
InnerSizes == { sz \in Sizes : sz.width <= 1 /\ sz.height <= 1 }

\* one call made on the surface, the device, the queue, a render pass or
\* the State, as the frame's record keeps it
Call(name, arg) == [ call |-> name, arg |-> arg ]

\* bytemuck::cast_slice(&[camera_uniform]): the uniform's cells
cast_slice(u) == u.view_proj

\* queue.write_buffer(buffer, offset, data): data overwrites the buffer's
\* cells from offset on
write_buffer(buf, offset, data) ==
    [ i \in 1 .. Len(buf) |->
        IF i > offset /\ i <= offset + Len(data) THEN data[i - offset] ELSE buf[i] ]

\* the eye of the camera State::new creates, (0.0, 1.0, 2.0), in steps of
\* the controller's speed from the target
InitEye == 1

\* State::new returning before it has configured the surface
State_new_unconfigured(wsize, format) ==
    LET cfg == [ usage |-> "RENDER_ATTACHMENT",
                 format |-> format,
                 width |-> wsize.width,
                 height |-> wsize.height,
                 present_mode |-> "Fifo" ]
        cam == [ eye |-> InitEye, aspect |-> PhysicalSize(cfg.width, cfg.height) ]
        uni == update_view_proj(CameraUniform_new, cam)
    IN [ surface |-> None,
         config |-> cfg,
         size |-> wsize,
         clear_color |-> "WHITE",
         num_indices |-> Len(INDICES),
         camera |-> cam,
         camera_controller |-> CameraController_new,
         camera_uniform |-> uni,
         camera_buffer |-> cast_slice(uni) ]

\* State::new(window) once adapter, device and texture have been obtained:
\* the State it returns (surface: what the surface is configured with)
State_new(wsize, format) ==
    LET cfg == [ usage |-> "RENDER_ATTACHMENT",
                 format |-> format,
                 width |-> wsize.width,
                 height |-> wsize.height,
                 present_mode |-> "Fifo" ]
        cam == [ eye |-> InitEye, aspect |-> PhysicalSize(cfg.width, cfg.height) ]
        uni == update_view_proj(CameraUniform_new, cam)
    IN [ surface |-> Some(cfg),
         config |-> cfg,
         size |-> wsize,
         clear_color |-> "WHITE",
         num_indices |-> Len(INDICES),
         camera |-> cam,
         camera_controller |-> CameraController_new,
         camera_uniform |-> uni,
         camera_buffer |-> cast_slice(uni) ]

\* resize with || for && in its guard
resize_or(s, new_size) ==
    IF new_size.width > 0 \/ new_size.height > 0
    THEN LET cfg == [s.config EXCEPT !.width = new_size.width,
                                     !.height = new_size.height]
         IN [ state |-> [s EXCEPT !.size = new_size, !.config = cfg,
                                  !.surface = Some(cfg)],
              calls |-> << Call("surface.configure", cfg) >> ]
    ELSE [ state |-> s, calls |-> <<>> ]

\* resize storing the new size before it looks at it
resize_size_unchecked(s, new_size) ==
    IF new_size.width > 0 /\ new_size.height > 0
    THEN LET cfg == [s.config EXCEPT !.width = new_size.width,
                                     !.height = new_size.height]
         IN [ state |-> [s EXCEPT !.size = new_size, !.config = cfg,
                                  !.surface = Some(cfg)],
              calls |-> << Call("surface.configure", cfg) >> ]
    ELSE [ state |-> [s EXCEPT !.size = new_size], calls |-> <<>> ]

\* resize switching the presentation mode as it reconfigures
resize_immediate(s, new_size) ==
    IF new_size.width > 0 /\ new_size.height > 0
    THEN LET cfg == [s.config EXCEPT !.width = new_size.width,
                                     !.height = new_size.height,
                                     !.present_mode = "Immediate"]
         IN [ state |-> [s EXCEPT !.size = new_size, !.config = cfg,
                                  !.surface = Some(cfg)],
              calls |-> << Call("surface.configure", cfg) >> ]
    ELSE [ state |-> s, calls |-> <<>> ]

\* State::resize(&mut self, new_size): the State afterwards and the calls made
resize(s, new_size) ==
    IF new_size.width > 0 /\ new_size.height > 0
    THEN LET cfg == [s.config EXCEPT !.width = new_size.width,
                                     !.height = new_size.height]
         IN [ state |-> [s EXCEPT !.size = new_size, !.config = cfg,
                                  !.surface = Some(cfg)],
              calls |-> << Call("surface.configure", cfg) >> ]
    ELSE [ state |-> s, calls |-> <<>> ]

\* what a resize can touch: the stored size, the stored configuration and
\* the surface's configuration
Stored(s) == [ size |-> s.size, config |-> s.config, surface |-> s.surface ]

\* the frame's record of a call state.resize(new_size) leading from s to
\* r.state, and of the calls resize made
resize_call(s, new_size, r) ==
    << Call("state.resize", [ new_size |-> new_size, before |-> Stored(s),
                              after |-> Stored(r.state) ]) >> \o r.calls

\* State::input(&mut self, event) -> bool
input(s, event, taken) ==
    LET r == process_events(s.camera_controller, event, taken)
    IN [ state |-> [s EXCEPT !.camera_controller = r.controller],
         ret |-> r.ret,
         calls |-> << Call("camera_controller.process_events", event),
                      Call("camera_controller.process_events returned", r.ret) >> ]

\* update writing the uniform to the buffer before it refreshes the uniform
update_stale_uniform(s) ==
    LET cam == update_camera(s.camera_controller, s.camera)
        data == cast_slice(s.camera_uniform)
        uni == update_view_proj(s.camera_uniform, cam)
    IN [ state |-> [s EXCEPT !.camera = cam, !.camera_uniform = uni,
                             !.camera_buffer = write_buffer(@, 0, data)],
         calls |-> << Call("queue.write_buffer", [offset |-> 0, data |-> data]) >> ]

\* State::update(&mut self)
update(s) ==
    LET cam == update_camera(s.camera_controller, s.camera)
        uni == update_view_proj(s.camera_uniform, cam)
        data == cast_slice(uni)
    IN [ state |-> [s EXCEPT !.camera = cam, !.camera_uniform = uni,
                             !.camera_buffer = write_buffer(@, 0, data)],
         calls |-> << Call("queue.write_buffer", [offset |-> 0, data |-> data]) >> ]

\* the render pass drawing before the index buffer is bound
render_pass_draw_unbound(s) ==
    << Call("encoder.begin_render_pass", s.clear_color),
       Call("render_pass.set_pipeline", "render_pipeline"),
       Call("render_pass.set_bind_group", <<0, "diffuse_bind_group">>),
       Call("render_pass.set_bind_group", <<1, "camera_bind_group">>),
       Call("render_pass.set_vertex_buffer", <<0, "vertex_buffer">>),
       Call("render_pass.draw_indexed",
            [ indices |-> <<0, s.num_indices>>, base_vertex |-> 0,
              instances |-> <<0, 1>> ]),
       Call("render_pass.set_index_buffer", <<"index_buffer", "Uint16">>) >>

\* the render pass State::render records
render_pass(s) ==
    << Call("encoder.begin_render_pass", s.clear_color),
       Call("render_pass.set_pipeline", "render_pipeline"),
       Call("render_pass.set_bind_group", <<0, "diffuse_bind_group">>),
       Call("render_pass.set_bind_group", <<1, "camera_bind_group">>),
       Call("render_pass.set_vertex_buffer", <<0, "vertex_buffer">>),
       Call("render_pass.set_index_buffer", <<"index_buffer", "Uint16">>),
       Call("render_pass.draw_indexed",
            [ indices |-> <<0, s.num_indices>>, base_vertex |-> 0,
              instances |-> <<0, 1>> ]) >>

\* what render does once the image is acquired, as calls: an early part
\* and the submission and presentation
Recorded(s) ==
    << Call("surface.get_current_texture", "Ok"),
       Call("texture.create_view", <<>>),
       Call("device.create_command_encoder", <<>>) >>
    \o render_pass(s)
    \o << Call("encoder.finish", <<>>) >>

\* render answering Ok(()) for the errors the frame driver recovers from
render_swallow(s, acq) ==
    IF acq = "OutOfMemory"
    THEN [ state |-> s, ret |-> acq,
           calls |-> << Call("surface.get_current_texture", acq) >> ]
    ELSE IF acq # "Ok"
    THEN [ state |-> s, ret |-> "Ok",
           calls |-> << Call("surface.get_current_texture", acq) >> ]
    ELSE [ state |-> s, ret |-> "Ok",
           calls |-> Recorded(s) \o << Call("queue.submit", <<>>),
                                       Call("output.present", <<>>) >> ]

\* render presenting the image before it submits the commands
render_present_first(s, acq) ==
    IF acq # "Ok"
    THEN [ state |-> s, ret |-> acq,
           calls |-> << Call("surface.get_current_texture", acq) >> ]
    ELSE [ state |-> s, ret |-> "Ok",
           calls |-> Recorded(s) \o << Call("output.present", <<>>),
                                       Call("queue.submit", <<>>) >> ]

\* State::render(&mut self) -> Result<(), SurfaceError>, acq being what
\* get_current_texture answers; the ? returns its error at once
render(s, acq) ==
    IF acq # "Ok"
    THEN [ state |-> s, ret |-> acq,
           calls |-> << Call("surface.get_current_texture", acq) >> ]
    ELSE [ state |-> s, ret |-> "Ok",
           calls |-> << Call("surface.get_current_texture", acq),
                        Call("texture.create_view", <<>>),
                        Call("device.create_command_encoder", <<>>) >>
                     \o render_pass(s)
                     \o << Call("encoder.finish", <<>>),
                           Call("queue.submit", <<>>),
                           Call("output.present", <<>>) >> ]

(***************************************************************************)
(* run (lib.rs): the closure handed to event_loop.run, one operator per    *)
(* arm of its match.  Each gives the State and *control_flow afterwards    *)
(* and the calls made, in order.                                           *)
(***************************************************************************)
Keys == {"Escape", "Space"} \cup MoveKeys
NoSize == PhysicalSize(0, 0)
WindowEvent(kind, st, key, sz) == [ kind |-> kind, state |-> st, key |-> key, size |-> sz ]
WindowEvents ==
    { WindowEvent("CloseRequested", "-", "-", NoSize),
      WindowEvent("CursorMoved", "-", "-", NoSize) }
    \cup { WindowEvent("KeyboardInput", st, k, NoSize) :
             st \in {"Pressed", "Released"}, k \in Keys }
    \cup { WindowEvent("Resized", "-", "-", sz) : sz \in Sizes }
    \cup { WindowEvent("ScaleFactorChanged", "-", "-", sz) :
             sz \in {NoSize, PhysicalSize(1, 1), PhysicalSize(MaxDim, 1)} }

\* the arm without its if !state.input(event): the match always runs
window_event_arm_unconditional(s, cf, event, taken) ==
    LET i == input(s, event, taken)
        called == << Call("state.input", event) >> \o i.calls
                  \o << Call("state.input returned", i.ret) >>
    IN IF \/ event.kind = "CloseRequested"
          \/ /\ event.kind = "KeyboardInput"
             /\ event.state = "Pressed"
             /\ event.key = "Escape"
       THEN [ state |-> i.state, control_flow |-> "Exit", calls |-> called ]
       ELSE IF event.kind \in {"Resized", "ScaleFactorChanged"}
       THEN LET r == resize(i.state, event.size)
            IN [ state |-> r.state, control_flow |-> cf,
                 calls |-> called \o resize_call(i.state, event.size, r) ]
       ELSE [ state |-> i.state, control_flow |-> cf, calls |-> called ]

\* Event::WindowEvent { ref event, window_id } if window_id == window.id()
window_event_arm(s, cf, event, taken) ==
    LET i == input(s, event, taken)
        called == << Call("state.input", event) >> \o i.calls
                  \o << Call("state.input returned", i.ret) >>
    IN IF i.ret
       THEN [ state |-> i.state, control_flow |-> cf, calls |-> called ]
       ELSE IF \/ event.kind = "CloseRequested"
               \/ /\ event.kind = "KeyboardInput"
                  /\ event.state = "Pressed"
                  /\ event.key = "Escape"
       THEN [ state |-> i.state, control_flow |-> "Exit", calls |-> called ]
       ELSE IF event.kind \in {"Resized", "ScaleFactorChanged"}
       THEN LET r == resize(i.state, event.size)
            IN [ state |-> r.state, control_flow |-> cf,
                 calls |-> called \o resize_call(i.state, event.size, r) ]
       ELSE [ state |-> i.state, control_flow |-> cf, calls |-> called ]

\* the match with every Err arm setting ControlFlow::Exit
match_render_exit_on_error(s, cf, ret) ==
    IF ret = "Ok"
    THEN [ state |-> s, control_flow |-> cf, calls |-> <<>> ]
    ELSE [ state |-> s, control_flow |-> "Exit", calls |-> <<>> ]

\* the match without its Lost arm: Lost falls to the Err(e) arm
match_render_lost_logged(s, cf, ret) ==
    IF ret = "Ok"
    THEN [ state |-> s, control_flow |-> cf, calls |-> <<>> ]
    ELSE IF ret = "OutOfMemory"
    THEN [ state |-> s, control_flow |-> "Exit", calls |-> <<>> ]
    ELSE [ state |-> s, control_flow |-> cf, calls |-> << Call("eprintln", ret) >> ]

\* the match answering every recoverable error as it answers Lost
match_render_always_resize(s, cf, ret) ==
    IF ret = "Ok"
    THEN [ state |-> s, control_flow |-> cf, calls |-> <<>> ]
    ELSE IF ret = "OutOfMemory"
    THEN [ state |-> s, control_flow |-> "Exit", calls |-> <<>> ]
    ELSE LET z == resize(s, s.size)
         IN [ state |-> z.state, control_flow |-> cf,
              calls |-> << Call("eprintln", ret) >> \o resize_call(s, s.size, z) ]

\* match state.render() { Ok(_) .. Err(Lost) .. Err(OutOfMemory) .. Err(e) .. }
match_render(s, cf, ret) ==
    IF ret = "Ok"
    THEN [ state |-> s, control_flow |-> cf, calls |-> <<>> ]
    ELSE IF ret = "Lost"
    THEN LET z == resize(s, s.size)
         IN [ state |-> z.state, control_flow |-> cf,
              calls |-> resize_call(s, s.size, z) ]
    ELSE IF ret = "OutOfMemory"
    THEN [ state |-> s, control_flow |-> "Exit", calls |-> <<>> ]
    ELSE [ state |-> s, control_flow |-> cf, calls |-> << Call("eprintln", ret) >> ]

\* the arm rendering first and updating afterwards
redraw_requested_arm_render_first(s, cf, acq) ==
    LET r == render(s, acq)
        u == update(r.state)
        m == match_render(u.state, cf, r.ret)
    IN [ state |-> m.state,
         control_flow |-> m.control_flow,
         calls |-> << Call("state.render", <<>>) >> \o r.calls
                   \o << Call("state.render returned", r.ret) >>
                   \o << Call("state.update", <<>>) >> \o u.calls
                   \o m.calls ]

\* Event::RedrawRequested(window_id) if window_id == window.id()
redraw_requested_arm(s, cf, acq) ==
    LET u == update(s)
        r == render(u.state, acq)
        m == match_render(r.state, cf, r.ret)
    IN [ state |-> m.state,
         control_flow |-> m.control_flow,
         calls |-> << Call("state.update", <<>>) >> \o u.calls
                   \o << Call("state.render", <<>>) >> \o r.calls
                   \o << Call("state.render returned", r.ret) >>
                   \o m.calls ]

\* history: the size of the last resize among calls that took effect, or
\* the one applied before them
LastApplied(calls, before) ==
    LET took == { i \in 1 .. Len(calls) :
                    /\ calls[i].call = "state.resize"
                    /\ calls[i].arg.new_size.width > 0
                    /\ calls[i].arg.new_size.height > 0 }
    IN IF took = {} THEN before
       ELSE calls[CHOOSE i \in took : \A k \in took : k <= i].arg.new_size

NoEvent == WindowEvent("-", "-", "-", NoSize)
NoState == [ surface |-> None ]

SInit ==
    /\ phase = "Uninitialized"
    /\ window_size \in InnerSizes
    /\ state = NoState
    /\ control_flow = "Poll"
    /\ redraw_requested = FALSE
    /\ frame = [ arm |-> "-", event |-> NoEvent, calls |-> <<>> ]
    /\ applied = NoSize

\* let mut state = State::new(&window).await; an unwrap() in it panics when
\* the adapter, the device or the texture cannot be obtained (ok = FALSE)
StateNew(ok, format) ==
    /\ phase = "Uninitialized"
    /\ IF ok
       THEN /\ phase' = "Ready"
            /\ state' = State_new(window_size, format)
            /\ frame' = [ arm |-> "State::new", event |-> NoEvent,
                          calls |-> << Call("surface.configure", state'.config) >> ]
            /\ applied' = window_size
       ELSE /\ phase' = "InitFailed"
            /\ UNCHANGED <<state, frame, applied>>
    /\ UNCHANGED <<window_size, control_flow, redraw_requested>>
    /\ UNCHANGED bvars

\* the event loop calls the closure until *control_flow is Exit
Dispatching == phase = "Ready" /\ control_flow # "Exit"

WindowEventArm(event, taken) ==
    /\ Dispatching
    /\ LET r == window_event_arm(state, control_flow, event, taken)
       IN /\ state' = r.state
          /\ control_flow' = r.control_flow
          /\ frame' = [ arm |-> "WindowEvent", event |-> event, calls |-> r.calls ]
          /\ applied' = LastApplied(r.calls, applied)
    /\ UNCHANGED <<phase, window_size, redraw_requested>>
    /\ UNCHANGED bvars

RedrawRequestedArm(acq) ==
    /\ Dispatching
    /\ LET r == redraw_requested_arm(state, control_flow, acq)
       IN /\ state' = r.state
          /\ control_flow' = r.control_flow
          /\ frame' = [ arm |-> "RedrawRequested", event |-> NoEvent, calls |-> r.calls ]
          /\ applied' = LastApplied(r.calls, applied)
    /\ redraw_requested' = FALSE
    /\ UNCHANGED <<phase, window_size>>
    /\ UNCHANGED bvars

\* the arm leaving out window.request_redraw()
MainEventsClearedArm_no_request ==
    /\ Dispatching
    /\ frame' = [ arm |-> "MainEventsCleared", event |-> NoEvent, calls |-> <<>> ]
    /\ UNCHANGED <<phase, window_size, state, control_flow, redraw_requested, applied>>
    /\ UNCHANGED bvars

\* Event::MainEventsCleared => window.request_redraw()
MainEventsClearedArm ==
    /\ Dispatching
    /\ redraw_requested' = TRUE
    /\ frame' = [ arm |-> "MainEventsCleared", event |-> NoEvent,
                  calls |-> << Call("window.request_redraw", <<>>) >> ]
    /\ UNCHANGED <<phase, window_size, state, control_flow, applied>>
    /\ UNCHANGED bvars

\* _ => {}: every other event, those of another window included
DefaultArm ==
    /\ Dispatching
    /\ frame' = [ arm |-> "_", event |-> NoEvent, calls |-> <<>> ]
    /\ UNCHANGED <<phase, window_size, state, control_flow, redraw_requested, applied>>
    /\ UNCHANGED bvars

\* run() constructs no PipelineBuilder
NoBuilder ==
    /\ builder = <<>>
    /\ last = <<>>
    /\ ncalls = 0
    /\ hist = <<>>
    /\ consumed = {}

Init == NoBuilder /\ SInit

Next ==
    \/ \E ok \in BOOLEAN, format \in Formats : StateNew(ok, format)
    \/ \E event \in WindowEvents, taken \in BOOLEAN : WindowEventArm(event, taken)
    \/ \E acq \in Acquisitions : RedrawRequestedArm(acq)
    \/ MainEventsClearedArm
    \/ DefaultArm

\* the render state and its frame driver
Spec == Init /\ [][Next]_vars

\* the RedrawRequested event that answers a window.request_redraw()
RequestedRedraw ==
    redraw_requested /\ \E acq \in Acquisitions : RedrawRequestedArm(acq)

\* the window events of the runs checked for progress: one of each effect
\* (exit, resize taking effect, resize ignored, camera key, other key)
LiveEvents ==
    { WindowEvent("CloseRequested", "-", "-", NoSize),
      WindowEvent("Resized", "-", "-", PhysicalSize(1, 1)),
      WindowEvent("Resized", "-", "-", NoSize),
      WindowEvent("KeyboardInput", "Pressed", "S", NoSize),
      WindowEvent("KeyboardInput", "Pressed", "Escape", NoSize) }

LiveNext ==
    \/ \E ok \in BOOLEAN : StateNew(ok, "Bgra8UnormSrgb")
    \/ \E event \in LiveEvents, taken \in BOOLEAN : WindowEventArm(event, taken)
    \/ \E acq \in Acquisitions : RedrawRequestedArm(acq)
    \/ MainEventsClearedArm
    \/ DefaultArm

\* the event loop at work: *control_flow is Poll (run never sets Wait), so
\* the loop iterates without waiting for events and emits MainEventsCleared
\* in every iteration, and it emits the RedrawRequested that a
\* request_redraw() asked for
LiveSpec ==
    /\ Init
    /\ [][LiveNext]_vars
    /\ WF_vars(MainEventsClearedArm)
    /\ WF_vars(RequestedRedraw)

\* the pipeline builder, nothing of run() having started
BuilderInit == BInit /\ SInit /\ window_size = NoSize

BuilderNext ==
    \/ \E f \in SetterFields : \E v \in SetterArgs(f) : SetField(f, v)
    \/ \E v \in VertexBufferLayouts : PushVertexBuffer(v)
    \/ \E v \in ColorTargetStates : PushColorState(v)
    \/ Build

BuilderSpec == BuilderInit /\ [][BuilderNext]_vars

(***************************************************************************)
(* Reading a frame's record.                                               *)
(***************************************************************************)
\* the positions in the frame's calls of the calls named name
CallsOf(name) == { i \in 1 .. Len(frame.calls) : frame.calls[i].call = name }

\* the frame is a redraw whose get_current_texture answered acq
Acquired(acq) ==
    /\ frame.arm = "RedrawRequested"
    /\ \E i \in CallsOf("surface.get_current_texture") : frame.calls[i].arg = acq

\* what state.render() returned in the frame (a redraw)
RenderReturned == frame.calls[CHOOSE i \in CallsOf("state.render returned") : TRUE].arg

Positive(sz) == sz.width > 0 /\ sz.height > 0

(***************************************************************************)
(* Claims about State::resize and the frame driver (specification Spec).   *)
(***************************************************************************)

\* C1: every call resize(w, h) with w > 0 and h > 0 leaves the stored
\* configuration with width w and height h; every call with w = 0 or h = 0
\* leaves the stored configuration, the stored size and the surface as they
\* were and does not reconfigure the surface.  resize being the last call
\* a handler makes, what it leaves is the State after the handler.
C1_ResizeContract ==
    \A i \in CallsOf("state.resize") :
        LET a == frame.calls[i].arg
            reconfigured == \E j \in CallsOf("surface.configure") : j > i
        IN /\ Stored(state) = a.after
           /\ IF Positive(a.new_size)
              THEN /\ a.after.config.width = a.new_size.width
                   /\ a.after.config.height = a.new_size.height
              ELSE /\ a.after = a.before
                   /\ ~reconfigured

\* C1 witness: a zero-area resize was ignored after an earlier resize had
\* changed the stored size
C1_Witness ==
    /\ phase = "Ready"
    /\ applied # window_size
    /\ state.size = applied
    /\ \E i \in CallsOf("state.resize") :
           /\ ~Positive(frame.calls[i].arg.new_size)
           /\ frame.calls[i].arg.new_size.height > 0

(***************************************************************************)
(* Claims about PipelineBuilder (specification BuilderSpec).               *)
(***************************************************************************)
\* the step is a call of build
BuildCalled == ncalls' = ncalls + 1 /\ last'.op = "build"

\* the pipeline descriptor a successful build handed to the device
Descriptor == Unwrap(last.ret).desc

Shaders == {"vertex_shader", "fragment_shader"}

\* C2: whatever setters were called before, a build called while the
\* layout, the vertex shader or the fragment shader is unset fails (it
\* panics) and produces no pipeline.
C2_BuildFailsWhenUnset ==
    [][ ( /\ BuildCalled
          /\ \/ builder.layout = None
             \/ builder.vertex_shader = None
             \/ builder.fragment_shader = None )
        => (last'.panic # "" /\ last'.ret = None) ]_vars

\* C2 witness: after setters for the layout, the vertex shader and a scalar
\* field, a build has failed for want of a fragment shader
C2_Witness ==
    /\ last.op = "build"
    /\ last.panic = "No fragment shader supplied"
    /\ last.ret = None
    /\ hist["layout"].set # None
    /\ hist["vertex_shader"].set # None
    /\ \E f \in ScalarFields : hist[f].set # None

\* C3: a successful build leaves the builder holding neither shader, and a
\* build called when both shaders were taken by a successful build and
\* neither has been set again since fails.
C3_ShadersConsumedOnce ==
    [][ BuildCalled
        => /\ last'.panic = ""
              => (builder'.vertex_shader = None /\ builder'.fragment_shader = None)
           /\ consumed = Shaders
              => (last'.panic # "" /\ last'.ret = None) ]_vars

\* C3 witness: a build has failed after a successful build took both
\* shaders and neither was set again
C3_Witness ==
    /\ last.op = "build"
    /\ last.panic # ""
    /\ consumed = Shaders
    /\ builder.layout # None

\* C4: a build called with the layout, the vertex shader and the fragment
\* shader all set succeeds and returns a pipeline, whatever the lists hold,
\* empty lists included.
C4_BuildSucceedsWhenSet ==
    [][ ( /\ BuildCalled
          /\ builder.layout # None
          /\ builder.vertex_shader # None
          /\ builder.fragment_shader # None )
        => /\ last'.panic = ""
           /\ last'.ret # None
           /\ Unwrap(last'.ret).kind = "RenderPipeline" ]_vars

\* C4 witness: a build has returned a pipeline with no vertex buffer layout
\* and no color target
C4_Witness ==
    /\ last.op = "build"
    /\ last.ret # None
    /\ builder.vertex_buffers = <<>>
    /\ builder.color_states = <<>>
    /\ Descriptor.vertex.buffers = <<>>
    /\ Unwrap(Descriptor.fragment).targets = <<>>

\* the entry a push setter adds to list f for argument v
Pushed(f, v) == IF f = "color_states" THEN Some(v) ELSE v

\* the list the replace and push setters called so far should have left in
\* list f: the list of the last replace (empty if none), then one entry per
\* later push, in order
EffectiveList(f) ==
    LET h == hist[f]
        given == IF h.set = None THEN <<>> ELSE Unwrap(h.set)
    IN given \o [ i \in 1 .. Len(h.pushed) |-> Pushed(f, h.pushed[i]) ]

\* C5: a push setter adds one entry at the end of its list and a replace
\* setter discards the list and stores the given one: each list holds the
\* entries of the last replace in their order, followed by those pushed
\* since, so n entries after a replace with n and n + 1 after one more
\* push; that is the list build hands on.
C5_AppendAndReplace ==
    /\ \A f \in ListFields :
           /\ builder[f] = EffectiveList(f)
           /\ hist[f].set # None
              => Len(builder[f]) = Len(Unwrap(hist[f].set)) + Len(hist[f].pushed)
    /\ (last.op = "build" /\ last.ret # None)
       => /\ Descriptor.vertex.buffers = EffectiveList("vertex_buffers")
          /\ Unwrap(Descriptor.fragment).targets = EffectiveList("color_states")

\* C5 witness: two pushes, a replace with a one-entry list that discarded
\* them, and one more push
C5_Witness ==
    /\ hist["vertex_buffers"].dropped = <<"vbl1", "vbl1">>
    /\ hist["vertex_buffers"].set = Some(<<"vbl2">>)
    /\ hist["vertex_buffers"].pushed = <<"vbl1">>
    /\ builder.vertex_buffers = <<"vbl2", "vbl1">>

\* the defaults of the fields that have one
DefaultOf(f) ==
    CASE f = "primitive_topology" -> "TriangleList"
      [] f = "front_face" -> "Ccw"
      [] f = "cull_mode" -> None
      [] f = "polygon_mode" -> "Fill"
      [] f = "sample_count" -> 1
      [] f = "sample_mask" -> 0 .. (MaskBits - 1)
      [] f = "alpha_to_coverage_enabled" -> FALSE
      [] f = "depth_stencil" -> None
      [] f = "multiview" -> None
      [] f = "vertex_buffers" -> <<>>
      [] f = "color_states" -> <<>>

\* where the pipeline descriptor d holds field f
PassedAs(d, f) ==
    CASE f = "primitive_topology" -> d.primitive.topology
      [] f = "front_face" -> d.primitive.front_face
      [] f = "cull_mode" -> d.primitive.cull_mode
      [] f = "polygon_mode" -> d.primitive.polygon_mode
      [] f = "sample_count" -> d.multisample.count
      [] f = "sample_mask" -> d.multisample.mask
      [] f = "alpha_to_coverage_enabled" -> d.multisample.alpha_to_coverage_enabled
      [] f = "depth_stencil" -> d.depth_stencil
      [] f = "multiview" -> d.multiview
      [] f = "vertex_buffers" -> d.vertex.buffers
      [] f = "color_states" -> Unwrap(d.fragment).targets

\* C6: a field no setter has been called for since new() holds its default
\* (triangle list, counter-clockwise, no culling, fill, 1 sample, all mask
\* bits, no alpha-to-coverage, no depth/stencil, no multiview, empty lists),
\* and a successful build passes that default to the pipeline descriptor.
C6_Defaults ==
    \A f \in ScalarFields \cup ListFields :
        hist[f] = NoHistory
        => /\ builder[f] = DefaultOf(f)
           /\ (last.op = "build" /\ last.ret # None)
              => PassedAs(Descriptor, f) = DefaultOf(f)

\* C6 witness: a build has succeeded with no scalar or list setter ever called
C6_Witness ==
    /\ last.op = "build"
    /\ last.ret # None
    /\ \A f \in ScalarFields \cup ListFields : hist[f] = NoHistory

(***************************************************************************)
(* Claims about rendering and its errors (specification Spec).             *)
(***************************************************************************)
\* nothing was submitted or presented in the frame
Skipped == CallsOf("queue.submit") = {} /\ CallsOf("output.present") = {}

\* the frame reconfigured the surface, after render had returned, with cfg
ReconfiguredWith(cfg) ==
    \E i \in CallsOf("surface.configure"), r \in CallsOf("state.render returned") :
        r < i /\ frame.calls[i].arg = cfg

\* a redraw whose acquisition failed with Lost was skipped and reconfigured
\* the surface with the configuration it had, of the width and height last
\* applied, which the surface then holds
LostRecovered ==
    /\ Skipped'
    /\ Unwrap(state.surface).width = applied.width
    /\ Unwrap(state.surface).height = applied.height
    /\ ReconfiguredWith(Unwrap(state.surface))'
    /\ state'.surface = state.surface

C8_FatalOutOfMemory ==
    frame.arm = "RedrawRequested"
    => /\ Acquired("OutOfMemory") <=> RenderReturned = "OutOfMemory"
       /\ control_flow = "Exit" <=> RenderReturned = "OutOfMemory"

\* C8 witness: an acquisition failed with OutOfMemory and the loop is to exit
C8_Witness ==
    /\ Acquired("OutOfMemory")
    /\ RenderReturned = "OutOfMemory"
    /\ control_flow = "Exit"

Recoverable == {"Lost", "Outdated", "Timeout"}

\* C9 as stated: render returns an error to the frame driver only for
\* OutOfMemory, and none for Lost, Outdated or Timeout.
C9_OnlyFatalReturned ==
    frame.arm = "RedrawRequested"
    => /\ RenderReturned \in {"Ok", "OutOfMemory"}
       /\ \A acq \in Recoverable : Acquired(acq) => RenderReturned = "Ok"

\* C9 amended: render returns every acquisition error unchanged to the
\* frame driver, and the frame driver's match handles the recoverable ones
\* without requesting exit: Lost by calling resize, Outdated and Timeout by
\* printing them.
C9_ErrorsReturnedAndMatched ==
    frame.arm = "RedrawRequested"
    => /\ \A acq \in Acquisitions : Acquired(acq) => RenderReturned = acq
       /\ RenderReturned \in Recoverable
          => /\ control_flow # "Exit"
             /\ \A i \in CallsOf("state.resize") \cup CallsOf("eprintln") :
                    \E r \in CallsOf("state.render returned") : r < i
             /\ CallsOf("state.resize") # {} <=> RenderReturned = "Lost"
             /\ CallsOf("eprintln") # {} <=> RenderReturned \in {"Outdated", "Timeout"}

\* C9 witness: render returned Outdated to the frame driver, which printed it
C9_Witness ==
    /\ Acquired("Outdated")
    /\ RenderReturned = "Outdated"
    /\ CallsOf("eprintln") # {}
    /\ control_flow = "Poll"

\* some call named a comes before some call named b in the frame
Before(a, b) == \E i \in CallsOf(a), j \in CallsOf(b) : i < j

\* C10: a render call whose acquisition succeeds makes, each once and in
\* this order, the acquisition, the render pass (begun, then drawn), the
\* submission and the presentation; one whose acquisition fails records,
\* submits and presents nothing; and nothing is submitted or presented
\* outside a render call.
C10_FrameOrder ==
    /\ Cardinality(CallsOf("queue.submit")) <= 1
    /\ Cardinality(CallsOf("output.present")) <= 1
    /\ ~Skipped => Acquired("Ok")
    /\ Acquired("Ok")
       => /\ Cardinality(CallsOf("surface.get_current_texture")) = 1
          /\ Before("state.render", "surface.get_current_texture")
          /\ Before("surface.get_current_texture", "encoder.begin_render_pass")
          /\ Before("encoder.begin_render_pass", "render_pass.draw_indexed")
          /\ Before("render_pass.draw_indexed", "queue.submit")
          /\ Before("queue.submit", "output.present")
          /\ Before("output.present", "state.render returned")
          /\ Cardinality(CallsOf("encoder.begin_render_pass")) = 1
    /\ \A acq \in SurfaceErrors :
           Acquired(acq)
           => /\ Skipped
              /\ CallsOf("encoder.begin_render_pass") = {}
              /\ CallsOf("render_pass.draw_indexed") = {}

\* C10 witness: a frame acquired its image and presented it
C10_Witness ==
    /\ Acquired("Ok")
    /\ CallsOf("queue.submit") # {}
    /\ CallsOf("output.present") # {}

(***************************************************************************)
(* Claims about the frame tick (specification Spec).                       *)
(***************************************************************************)
\* the calls the frame driver makes on the State
StateCalls == {"state.input", "state.update", "state.render", "state.resize"}

\* call j of the frame is a state.update and call i a state.render, with no
\* call on the State between them
UpdateThenRender(j, i) ==
    /\ j < i
    /\ frame.calls[j].call = "state.update"
    /\ frame.calls[i].call = "state.render"
    /\ \A k \in (j + 1) .. (i - 1) : frame.calls[k].call \notin StateCalls

\* C11: render is called in redraw ticks only, once per tick, and every
\* render call comes after the tick's one update call with no resize and no
\* input handling between the two.
C11_UpdateBeforeRender ==
    /\ CallsOf("state.render") # {} <=> frame.arm = "RedrawRequested"
    /\ Cardinality(CallsOf("state.render")) <= 1
    /\ \A i \in CallsOf("state.render") :
           /\ Cardinality(CallsOf("state.update")) = 1
           /\ \E j \in CallsOf("state.update") : UpdateThenRender(j, i)

\* C11 witness: a redraw tick updated, wrote the uniform buffer, then rendered
C11_Witness ==
    /\ frame.arm = "RedrawRequested"
    /\ \E j \in CallsOf("state.update"), w \in CallsOf("queue.write_buffer"),
          i \in CallsOf("state.render") : j < w /\ w < i /\ UpdateThenRender(j, i)

\* the view-projection matrix of camera cam as the uniform buffer holds it
MatrixOf(cam) == cast_slice([ view_proj |-> build_view_projection_matrix(cam) ])

\* C12: a tick's update call leaves the camera as the controller's input
\* moves it, and makes one write to the uniform buffer, at offset 0 and of
\* the buffer's whole length, of the view-projection matrix computed from
\* that camera; the buffer then holds that matrix, and in every state after
\* initialization it holds the matrix of the camera as it is.
C12_UniformFresh ==
    [][ /\ phase' = "Ready"
           => state'.camera_buffer = MatrixOf(state'.camera)
        /\ frame'.arm = "RedrawRequested"
           => /\ state'.camera = update_camera(state.camera_controller, state.camera)
              /\ Cardinality(CallsOf("queue.write_buffer")') = 1
              /\ \A w \in CallsOf("queue.write_buffer")' :
                     /\ frame'.calls[w].arg.offset = 0
                     /\ frame'.calls[w].arg.data = MatrixOf(state'.camera)
                     /\ Len(frame'.calls[w].arg.data) = Len(state.camera_buffer)
                     /\ \E u \in CallsOf("state.update")', r \in CallsOf("state.render")' :
                            u < w /\ w < r ]_vars

\* C12 witness: an update has moved the camera away from where it started
\* and the uniform buffer holds the moved camera's matrix
C12_Witness ==
    /\ frame.arm = "RedrawRequested"
    /\ state.camera_controller.is_backward_pressed
    /\ state.camera.eye # InitEye
    /\ state.camera_buffer = MatrixOf(state.camera)
    /\ state.camera_buffer # MatrixOf([state.camera EXCEPT !.eye = InitEye])

\* the frame's event asks the frame driver to exit
AsksExit(e) ==
    \/ e.kind = "CloseRequested"
    \/ e.kind = "KeyboardInput" /\ e.state = "Pressed" /\ e.key = "Escape"

\* C13: a window event is handed to state.input first, which hands it to
\* the controller before anything else and returns the controller's answer.
\* If the answer is true the frame driver makes no resize and requests no
\* exit; if it is false, a close request or an Escape key press leaves
\* *control_flow at Exit, and a Resized or ScaleFactorChanged event makes
\* one resize call, with the event's size.
C13_ControllerFirst ==
    frame.arm = "WindowEvent"
    => LET e == frame.event
           answer == frame.calls[4].arg
       IN /\ frame.calls[1] = Call("state.input", e)
          /\ frame.calls[2] = Call("camera_controller.process_events", e)
          /\ frame.calls[3].call = "camera_controller.process_events returned"
          /\ frame.calls[4] = Call("state.input returned", frame.calls[3].arg)
          /\ answer
             => /\ CallsOf("state.resize") = {}
                /\ CallsOf("surface.configure") = {}
                /\ control_flow # "Exit"
          /\ (~answer /\ AsksExit(e)) => control_flow = "Exit"
          /\ (~answer /\ ~AsksExit(e)) => control_flow # "Exit"
          /\ (~answer /\ e.kind \in {"Resized", "ScaleFactorChanged"})
             => /\ Cardinality(CallsOf("state.resize")) = 1
                /\ \A i \in CallsOf("state.resize") :
                       i > 4 /\ frame.calls[i].arg.new_size = e.size
          /\ e.kind \notin {"Resized", "ScaleFactorChanged"}
             => CallsOf("state.resize") = {}

\* C13 witness: the controller consumed a Resized event of a nonzero size
\* other than the stored one, and the frame driver did not resize
C13_Witness ==
    /\ frame.arm = "WindowEvent"
    /\ frame.event.kind = "Resized"
    /\ Positive(frame.event.size)
    /\ frame.event.size # state.size
    /\ frame.calls[4] = Call("state.input returned", TRUE)
    /\ CallsOf("state.resize") = {}

\* a call named name with argument arg comes, inside the render pass,
\* before call d of the frame
BoundBefore(name, arg, d) ==
    \E i \in CallsOf(name), b \in CallsOf("encoder.begin_render_pass") :
        b < i /\ i < d /\ frame.calls[i].arg = arg

\* C14: num_indices is the length of INDICES, 9 indices that name three
\* triangles over the five vertices, and a render call whose acquisition
\* succeeds records one render pass with one draw call in it: an indexed
\* draw of the indices 0..num_indices, base vertex 0, of the one instance
\* 0..1, made after the pipeline, the bind groups 0 and 1, the vertex buffer
\* at slot 0 and the index buffer as Uint16 have been bound in that pass.
C14_OneIndexedDraw ==
    /\ phase = "Ready"
       => /\ state.num_indices = Len(INDICES)
          /\ state.num_indices = 9
          /\ state.num_indices = 3 * 3
          /\ Len(VERTICES) = 5
          /\ \A i \in 1 .. Len(INDICES) : INDICES[i] \in 0 .. (Len(VERTICES) - 1)
          /\ INDICES = <<0, 1, 4, 1, 2, 4, 2, 3, 4>>
    /\ Acquired("Ok")
       => /\ Cardinality(CallsOf("encoder.begin_render_pass")) = 1
          /\ Cardinality(CallsOf("render_pass.draw_indexed")) = 1
          /\ CallsOf("render_pass.draw") = {}
          /\ \A d \in CallsOf("render_pass.draw_indexed") :
                 /\ frame.calls[d].arg = [ indices |-> <<0, state.num_indices>>,
                                           base_vertex |-> 0,
                                           instances |-> <<0, 1>> ]
                 /\ BoundBefore("render_pass.set_pipeline", "render_pipeline", d)
                 /\ BoundBefore("render_pass.set_bind_group", <<0, "diffuse_bind_group">>, d)
                 /\ BoundBefore("render_pass.set_bind_group", <<1, "camera_bind_group">>, d)
                 /\ BoundBefore("render_pass.set_vertex_buffer", <<0, "vertex_buffer">>, d)
                 /\ BoundBefore("render_pass.set_index_buffer", <<"index_buffer", "Uint16">>, d)
                 /\ \E f \in CallsOf("encoder.finish") : d < f

\* C14 witness: a frame was rendered and presented with its one draw of
\* the indices 0..9
C14_Witness ==
    /\ Acquired("Ok")
    /\ CallsOf("output.present") # {}
    /\ \E d \in CallsOf("render_pass.draw_indexed") :
           frame.calls[d].arg.indices = <<0, 9>>

\* C15: a redraw whose acquisition fails with Outdated or Timeout submits
\* and presents nothing, prints the error, makes no resize call and no
\* surface.configure call, leaves the stored size, the stored configuration
\* and the surface's configuration as they were, and leaves *control_flow
\* as it was, which is not Exit.
C15_TransientDropped ==
    [][ \A acq \in {"Outdated", "Timeout"} :
            Acquired(acq)'
            => /\ Skipped'
               /\ \E p \in CallsOf("eprintln")', r \in CallsOf("state.render returned")' :
                      r < p /\ frame'.calls[p].arg = acq
               /\ CallsOf("state.resize")' = {}
               /\ CallsOf("surface.configure")' = {}
               /\ Stored(state') = Stored(state)
               /\ control_flow' = control_flow
               /\ control_flow' # "Exit" ]_vars

\* C15 witness: with a surface of nonzero size, a frame timed out and was
\* printed, and nothing was reconfigured
C15_Witness ==
    /\ Acquired("Timeout")
    /\ Positive(state.size)
    /\ \E p \in CallsOf("eprintln") : frame.calls[p].arg = "Timeout"
    /\ CallsOf("surface.configure") = {}
    /\ control_flow = "Poll"

(***************************************************************************)
(* More claims about PipelineBuilder (specification BuilderSpec).          *)
(***************************************************************************)
\* the step is a call of a setter, replacing or pushing
SetterCalled == ncalls' = ncalls + 1 /\ last'.op \in {"set", "push"}

\* what scalar field f holds once its setter was given v: the fields
\* declared Option hold Some(v)
Held(f, v) == IF f \in {"cull_mode", "depth_stencil", "multiview"} THEN Some(v) ELSE v

\* C16: a setter call leaves every field but its own as it was; after any
\* calls, each scalar field whose setter was called holds the argument of
\* the last of those calls; and a successful build hands that value, for
\* each such field, to the pipeline descriptor.
C16_SettersIndependent ==
    [][ /\ SetterCalled
           => \A g \in (DOMAIN builder) \ {last'.field} : builder'[g] = builder[g]
        /\ \A f \in ScalarFields :
               hist'[f].set # None => builder'[f] = Held(f, Unwrap(hist'[f].set))
        /\ (BuildCalled /\ last'.ret # None)
           => \A f \in ScalarFields :
                  hist[f].set # None
                  => PassedAs(Descriptor', f) = Held(f, Unwrap(hist[f].set)) ]_vars

\* C16 witness: cull_mode was set to Front and later to Back, front_face
\* was set as well, and the builder holds Back and the front face given
C16_Witness ==
    /\ hist["cull_mode"].dropped = << Some("Front") >>
    /\ hist["cull_mode"].set = Some("Back")
    /\ builder.cull_mode = Some("Back")
    /\ hist["front_face"].set = Some("Cw")
    /\ builder.front_face = "Cw"

\* C17 as stated: a build call that fails leaves every field of the builder
\* as it was before the call.
C17_BuildAtomic ==
    [][ (BuildCalled /\ last'.panic # "") => builder' = builder ]_vars

\* C17, what the code does: a build has failed for want of a fragment
\* shader and the vertex shader that had been set, and that no successful
\* build took, is gone from the builder
C17_Witness ==
    /\ last.op = "build"
    /\ last.panic = "No fragment shader supplied"
    /\ hist["vertex_shader"].set # None
    /\ "vertex_shader" \notin consumed
    /\ builder.vertex_shader = None
    /\ builder.layout # None

(***************************************************************************)
(* Claims about initialization and the stored configuration (Spec).        *)
(***************************************************************************)
\* C18: until State::new has returned there is no State, no event has been
\* handled and no call has been made; when it has failed that stays so;
\* when it has returned, the surface is configured and the State holds its
\* index count and its uniform buffer, and State::new itself has made no
\* resize, input, update or render call.  So every such call is made with
\* initialization complete.
C18_InitFirst ==
    /\ phase # "Ready"
       => /\ state = NoState
          /\ frame.arm = "-"
          /\ frame.calls = <<>>
          /\ control_flow = "Poll"
          /\ ~redraw_requested
    /\ (\E c \in StateCalls : CallsOf(c) # {}) => phase = "Ready"
    /\ phase = "Ready"
       => /\ state.surface # None
          /\ state.num_indices = Len(INDICES)
          /\ Len(state.camera_buffer) = Len(cast_slice(CameraUniform_new))
          /\ frame.arm # "-"
          /\ frame.arm = "State::new"
             => /\ \A c \in StateCalls : CallsOf(c) = {}
                /\ state.surface = Some(state.config)
                /\ frame.calls = << Call("surface.configure", state.config) >>
                /\ state.size = window_size

\* C18 witness: initialization has failed and nothing was processed
C18_Witness ==
    /\ phase = "InitFailed"
    /\ state = NoState
    /\ frame.arm = "-"

\* configuration cfg with the width and height of new_size
WithSize(cfg, new_size) ==
    [cfg EXCEPT !.width = new_size.width, !.height = new_size.height]

\* C19: State::new leaves the configuration with usage RENDER_ATTACHMENT,
\* presentation mode Fifo and one of the surface's formats; a step in which
\* no resize is called (input, update and render being called in such
\* steps) leaves the stored configuration as it was; a resize call finds it
\* as it was before the step, whatever input, update or render did before,
\* and leaves it with at most its width and height changed, to those of
\* the new size; so format, usage and presentation mode never change.
C19_ConfigOnlyByResize ==
    [][ /\ phase' = "Ready"
           => /\ state'.config.usage = "RENDER_ATTACHMENT"
              /\ state'.config.present_mode = "Fifo"
              /\ state'.config.format \in Formats
        /\ phase = "Ready"
           => /\ state'.config.format = state.config.format
              /\ state'.config.usage = state.config.usage
              /\ state'.config.present_mode = state.config.present_mode
              /\ CallsOf("state.resize")' = {} => state'.config = state.config
              /\ \A i \in CallsOf("state.resize")' :
                     LET a == frame'.calls[i].arg
                     IN /\ a.before.config = state.config
                        /\ a.after.config = state'.config
                        /\ a.after.config \in {a.before.config,
                                                WithSize(a.before.config, a.new_size)} ]_vars

\* C19 witness: after an input, a resize to a size other than the window's
\* has changed the width or height of the configuration, whose format,
\* usage and presentation mode are those of initialization
C19_Witness ==
    /\ frame.arm = "WindowEvent"
    /\ \E i \in CallsOf("state.resize") :
           /\ frame.calls[i].arg.before.config # frame.calls[i].arg.after.config
           /\ frame.calls[i].arg.after.config = state.config
    /\ PhysicalSize(state.config.width, state.config.height) # window_size
    /\ state.config.present_mode = "Fifo"
    /\ state.config.usage = "RENDER_ATTACHMENT"

\* C20: after initialization the stored size is the width and height of the
\* stored configuration; and when the window had a nonzero width and height
\* at initialization, the stored size has them nonzero in every state, so
\* that the resize(size) of a frame whose acquisition failed with Lost
\* reconfigures the surface, with the stored configuration.
C20_SizeIsConfig ==
    phase = "Ready"
    => /\ state.size = PhysicalSize(state.config.width, state.config.height)
       /\ Positive(window_size)
          => /\ Positive(state.size)
             /\ state.config.width > 0 /\ state.config.height > 0
             /\ Acquired("Lost")
                => \E i \in CallsOf("state.resize"), j \in CallsOf("surface.configure") :
                       /\ i < j
                       /\ frame.calls[i].arg.new_size = state.size
                       /\ frame.calls[j].arg = state.config
                       /\ state.surface = Some(state.config)

\* C20 witness: the window had an area at initialization, was resized
\* since, and a frame that lost its surface has reconfigured it with the
\* stored configuration
C20_Witness ==
    /\ phase = "Ready"
    /\ Positive(window_size)
    /\ state.size # window_size
    /\ Acquired("Lost")
    /\ \E j \in CallsOf("surface.configure") : frame.calls[j].arg = state.config
    /\ state.size = PhysicalSize(state.config.width, state.config.height)

(***************************************************************************)
(* Rendering goes on (specification LiveSpec).                             *)
(***************************************************************************)
\* the last event handled was a redraw whose acquisition failed with an
\* error the frame driver recovers from
RecoverableFrame == \E acq \in Recoverable : Acquired(acq)

\* the last event handled was a redraw that updated and then attempted to
\* render, serving the redraw that had been requested
RenderAttempt ==
    /\ frame.arm = "RedrawRequested"
    /\ ~redraw_requested
    /\ \E u \in CallsOf("state.update"), r \in CallsOf("state.render") : u < r

\* C21: after a frame whose acquisition failed with Lost, Outdated or
\* Timeout, exit is requested or a redraw is requested (by the next
\* MainEventsCleared); and once a redraw is requested, exit is requested or
\* a redraw frame follows that serves the request: it updates and attempts
\* to render.
C21_RenderingContinues ==
    /\ RecoverableFrame ~> (control_flow = "Exit" \/ redraw_requested)
    /\ redraw_requested ~> (control_flow = "Exit" \/ RenderAttempt)

\* C21 witness: a frame has timed out, exit is not requested and no redraw
\* is pending: the next attempt rests on the next MainEventsCleared
C21_Witness ==
    /\ Acquired("Timeout")
    /\ control_flow = "Poll"
    /\ ~redraw_requested
    /\ CallsOf("eprintln") # {}

====
